---- MODULE Spec2Model ----
(***************************************************************************)
(* Hedera mirror node -> QuickBooks Online sync (src/quickbook-sync.js).   *)
(*                                                                         *)
(* The model follows the single-file Express server: the OAuth callback,   *)
(* the realm helper, the in-memory de-dupe cache, the QBO helpers and the  *)
(* /syncHederaToQbo handler.  A handler runs synchronously from one        *)
(* awaited network call to the next, so every action below is "the pending *)
(* awaited call of a request completes, and the handler runs on to its     *)
(* next await (or to its response)".                                       *)
(*                                                                         *)
(* Strings that the code builds or parses (transaction ids, consensus      *)
(* timestamps, idempotency keys) are sequences of one-character strings;   *)
(* the literal prefix "hedera" is one token.  Account ids, realm ids and   *)
(* entity names, which the code only compares, are plain strings.          *)
(***************************************************************************)
EXTENDS Integers, Sequences, FiniteSets, TLC

\* ------------------------------------------------------------------------
\* Bounds of the model
\* ------------------------------------------------------------------------

\* The server processes (each a `node quickbook-sync.js`) that share the
\* accounting backend and the mirror node.
Procs == {"p1", "p2"}

\* The HTTP requests that can be in flight at one time.
Reqs == {"q1", "q2"}

\* The QuickBooks companies a callback can authorize.
Realms == {"realmA", "realmB"}

\* At most this many Deposit/Transfer records are written to one company.
MaxRecords == 2

Null == "null"

\* ------------------------------------------------------------------------
\* Configuration (src/quickbook-sync.js:44-60)
\* ------------------------------------------------------------------------

TARGET_HEDERA_ACCOUNT == "0.0.100"

TRACKED_HEDERA_ACCOUNTS == <<"0.0.100", "0.0.200">>

\* The values of req.query.account: absent, or another tracked account.
QueryAccounts == {Null, "0.0.200"}

\* `maxresults 200` of the two de-dupe queries.
MaxResults == 200

\* `limit` of fetchMirrorTransactionsForAccount.
PageLimit == 25

\* tinybar per 0.01 hbar: 100_000_000 / 100.
TinybarPerCent == 1000000

SecondsPerDay == 86400

\* ------------------------------------------------------------------------
\* The ledger behind the mirror node, oldest first.  Tx1 credits 0.0.100
\* and moves 1 hbar out of and back into 0.0.200; Tx2 moves 3 hbar from
\* 0.0.100 to 0.0.200; Tx3 moves 2 hbar from 0.0.200 to an untracked account
\* and carries a token transfer of 0.0.100, which has no hbar entry in it.
\* ------------------------------------------------------------------------

Tx1 ==
    [ transaction_id |-> <<"0", ".", "0", ".", "1", "-", "1", "-", "1">>,
      consensus_timestamp |-> <<"1","7","0","0","0","0","0","0","0","0",".","0">>,
      transfers |-> << [account |-> "0.0.100", amount |-> 500000000],
                       [account |-> "0.0.200", amount |-> 100000000],
                       [account |-> "0.0.200", amount |-> -100000000] >>,
      token_transfers |-> <<>> ]

Tx2 ==
    [ transaction_id |-> <<"0", ".", "0", ".", "1", "-", "1", "-", "2">>,
      consensus_timestamp |-> <<"1","7","0","0","0","0","0","1","0","0",".","0">>,
      transfers |-> << [account |-> "0.0.100", amount |-> -300000000],
                       [account |-> "0.0.200", amount |-> 300000000] >>,
      token_transfers |-> <<>> ]

Tx3 ==
    [ transaction_id |-> <<"0", ".", "0", ".", "2", "-", "1", "-", "1">>,
      consensus_timestamp |-> <<"1","7","0","0","0","9","0","0","0","0",".","0">>,
      transfers |-> << [account |-> "0.0.200", amount |-> -200000000],
                       [account |-> "0.0.999", amount |-> 200000000] >>,
      token_transfers |-> << [account |-> "0.0.100"] >> ]

Ledger == <<Tx1, Tx2, Tx3>>

\* ------------------------------------------------------------------------
\* State
\* ------------------------------------------------------------------------

VARIABLES
    token,        \* [Procs -> token of oauthClient]: has, realmId
    realmId,      \* [Procs -> the module variable realmId]
    seenKeys,     \* [Procs -> the Set seenKeys]
    callback,     \* [Procs -> the /callback request awaiting createToken]
    run,          \* [Reqs -> the /syncHederaToQbo request and its locals]
    qbo,          \* [Realms -> the company's accounts and Deposit/Transfer records]
    mirrorLen,    \* how many ledger transactions the mirror node has indexed
    otherPerDay,  \* records of other origin in every same-day bucket of the backend
    today,        \* the wall clock's UTC day (days since the epoch)
    lastDone,     \* history: the sync run that completed as the latest event
    seenUnder,    \* history: [Procs -> the keys of seenKeys, each with the company
                  \*           of the request that added it]
    probe,        \* the helper application under study (see the helper specs)
    recovered     \* the backend and the mirror node reject no call any more
                  \* (see RetrySpec)

vars == <<token, realmId, seenKeys, callback, run, qbo, mirrorLen, otherPerDay,
          today, lastDone, seenUnder, probe, recovered>>

\* ------------------------------------------------------------------------
\* Pure helpers of the source
\* ------------------------------------------------------------------------

Abs(x) == IF x < 0 THEN -x ELSE x

Min(a, b) == IF a < b THEN a ELSE b

RECURSIVE SumAmounts(_)
SumAmounts(s) == IF s = <<>> THEN 0 ELSE Head(s).amount + SumAmounts(Tail(s))

\* netTinybarFor: the sum of the entries of hederaId.
netTinybarFor(tx, hederaId) ==
    SumAmounts(SelectSeq(tx.transfers, LAMBDA t : t.account = hederaId))

\* A loop without the zero-movement test.
NeverZero(net) == FALSE

\* `if (net === 0) continue;`
ZeroMovement(net) == net = 0

\* otherAccountsInTransfer(...).map(x => x.account): the other entries' accounts.
otherAccountsInTransfer(tx, targetId) ==
    LET others == SelectSeq(tx.transfers,
                            LAMBDA t : t.account # "" /\ t.account # targetId)
    IN  [i \in 1..Len(others) |-> others[i].account]

Includes(arr, a) == \E i \in 1..Len(arr) : arr[i] = a

\* A lookup that finds no tracked counterparty.
NoTracked(others) == Null

\* others.find(a => TRACKED_HEDERA_ACCOUNTS.includes(a)); Null for undefined.
FindTracked(others) ==
    LET hits == SelectSeq(others, LAMBDA a : Includes(TRACKED_HEDERA_ACCOUNTS, a))
    IN  IF hits = <<>> THEN Null ELSE Head(hits)

\* A field the JSON of the mirror node does not hold (undefined): one token
\* that is no character.
Undefined == <<"undefined">>

\* `x || ""` on a string field: the empty string for a missing or empty one.
OrEmpty(x) == IF x = Undefined \/ x = <<>> THEN <<>> ELSE x

\* A key made of the transaction id alone.
KeyWithoutTimestamp(tx) == <<"hedera", ":">> \o OrEmpty(tx.transaction_id) \o <<":">>

\* makeIdempotencyKey: `hedera:${transaction_id || ""}:${consensus_timestamp || ""}`.
makeIdempotencyKey(tx) ==
    <<"hedera", ":">> \o OrEmpty(tx.transaction_id) \o <<":">>
        \o OrEmpty(tx.consensus_timestamp)

Digits == {"0", "1", "2", "3", "4", "5", "6", "7", "8", "9"}

DigitVal(c) ==
    CASE c = "0" -> 0 [] c = "1" -> 1 [] c = "2" -> 2 [] c = "3" -> 3
      [] c = "4" -> 4 [] c = "5" -> 5 [] c = "6" -> 6 [] c = "7" -> 7
      [] c = "8" -> 8 [] c = "9" -> 9

\* String(consensusTs).split(".")[0]
RECURSIVE SplitDotHead(_)
SplitDotHead(s) ==
    IF s = <<>> \/ Head(s) = "." THEN <<>>
    ELSE <<Head(s)>> \o SplitDotHead(Tail(s))

RECURSIVE DigitsValue(_)
DigitsValue(s) ==
    IF s = <<>> THEN 0
    ELSE 10 * DigitsValue(SubSeq(s, 1, Len(s) - 1)) + DigitVal(s[Len(s)])

\* A Date holds at most 8.64e15 ms: seconds of more than this many digits
\* make `new Date(secs * 1000)` an Invalid Date.
MaxDateDigits == 13

\* Number(str) on the strings of this model: a run of decimal digits is its
\* value, the empty string is 0, anything else is NaN.  `huge` says that the
\* value is beyond the range of a Date; the value of such a string is not
\* computed.  (The strings of the model have at most 10 digits, or more
\* than MaxDateDigits.)
NumberOf(s) ==
    IF \E i \in 1..Len(s) : s[i] \notin Digits
    THEN [finite |-> FALSE, huge |-> FALSE, val |-> 0]
    ELSE IF Len(s) > MaxDateDigits
    THEN [finite |-> TRUE, huge |-> TRUE, val |-> 0]
    ELSE [finite |-> TRUE, huge |-> FALSE, val |-> DigitsValue(s)]

\* A helper that takes the day from the wall clock alone.
WallClockDate(consensusTs, now) == [throws |-> FALSE, day |-> now]

\* toTxnDateFromConsensus at the wall-clock day `now`: the day it returns,
\* or that it throws (toISOString of an Invalid Date raises a RangeError).
\* A date is the number of days since the epoch (toISOString().slice(0, 10)
\* is one-to-one on days).
toTxnDateFromConsensus(consensusTs, now) ==
    IF consensusTs = Undefined \/ consensusTs = <<>>
    THEN [throws |-> FALSE, day |-> now]
    ELSE LET secs == NumberOf(SplitDotHead(consensusTs))
         IN  IF ~secs.finite THEN [throws |-> FALSE, day |-> now]
             ELSE IF secs.huge THEN [throws |-> TRUE, day |-> 0]
             ELSE [throws |-> FALSE, day |-> secs.val \div SecondsPerDay]

\* The hundredths q below MaxTieCents for which the double nearest to
\* (q + 0.5) / 100 is not below it (IEEE 754 binary64): toFixed(2), which
\* rounds the double's exact value, takes q + 0.5 hundredths up to q + 1 for
\* these and down to q for the others.
MaxTieCents == 16

TiesUp == {0, 2, 3, 5, 6, 8, 9, 11, 12, 13}

\* Rounding to hundredths with every half taken up.
HalfUpCents(net) == (Abs(net) + (TinybarPerCent \div 2)) \div TinybarPerCent

\* Number(amount.toFixed(2)) for amount = Math.abs(net) / 100_000_000, in
\* hundredths of an hbar.  (The amounts of the model that lie on a half are
\* below MaxTieCents hundredths.)
AmountCents(net) ==
    LET q == Abs(net) \div TinybarPerCent
        rest == Abs(net) % TinybarPerCent
    IN  IF 2 * rest > TinybarPerCent THEN q + 1
        ELSE IF 2 * rest < TinybarPerCent THEN q
        ELSE IF q \in TiesUp THEN q + 1 ELSE q

\* hederaWalletAccountName and the two fixed account names.
hederaWalletAccountName(hederaId) == <<"Hedera", hederaId>>

ClearingName == <<"Hedera", "Clearing">>

ExternalOutflowName == <<"External Hedera Outflow">>

\* data.transactions of `/transactions?account.id=<hederaId>&limit=<limit>`
\* when the mirror node has indexed the first n ledger transactions: those
\* that involve the account (in an hbar or a token transfer), most recent
\* first, at most `limit`.
Page(n, hederaId) ==
    LET involved == SelectSeq(SubSeq(Ledger, 1, n),
                        LAMBDA tx :
                            \/ \E i \in 1..Len(tx.transfers) :
                                    tx.transfers[i].account = hederaId
                            \/ \E i \in 1..Len(tx.token_transfers) :
                                    tx.token_transfers[i].account = hederaId)
        m == Min(Len(involved), PageLimit)
    IN  [i \in 1..m |-> involved[Len(involved) + 1 - i]]

\* ------------------------------------------------------------------------
\* The realm helper and the in-memory de-dupe cache
\* ------------------------------------------------------------------------

NoToken == [has |-> FALSE, realmId |-> Null]

\* A realm helper that takes the token's realm without comparing it with
\* the realm remembered from the callback.
UncheckedRealm(p) ==
    IF ~token[p].has THEN [ok |-> FALSE, realm |-> Null, error |-> "no token"]
    ELSE IF token[p].realmId = Null
    THEN [ok |-> FALSE, realm |-> Null, error |-> "missing realmId"]
    ELSE [ok |-> TRUE, realm |-> token[p].realmId, error |-> Null]

\* getCompanyRealmIdOrThrow on process p: ok and the realm it returns, or the
\* error it throws.
getCompanyRealmIdOrThrow(p) ==
    IF ~token[p].has THEN [ok |-> FALSE, realm |-> Null, error |-> "no token"]
    ELSE IF token[p].realmId = Null
    THEN [ok |-> FALSE, realm |-> Null, error |-> "missing realmId"]
    ELSE IF realmId[p] # Null /\ realmId[p] # token[p].realmId
    THEN [ok |-> FALSE, realm |-> Null, error |-> "realm mismatch"]
    ELSE [ok |-> TRUE, realm |-> token[p].realmId, error |-> Null]

\* A cache that answers from a set it has just forgotten.
ForgetfulCache(seen, key) == [result |-> FALSE, seen |-> seen \cup {key}]

\* alreadyProcessedInMemory(key) against the set `seen`: what it returns and
\* the set it leaves.
alreadyProcessedInMemory(seen, key) ==
    IF key \in seen THEN [result |-> TRUE, seen |-> seen]
    ELSE [result |-> FALSE, seen |-> seen \cup {key}]

\* ------------------------------------------------------------------------
\* The accounting backend
\* ------------------------------------------------------------------------

\* How the backend answers a call: the entity or query response, a body that
\* holds a Fault object under HTTP success, or an error makeApiCall throws.
Outcomes == {"ok", "fault", "throw"}

EmptyCompany == [accounts |-> <<>>, txns |-> <<>>]

\* `select * from Account where Name='...' maxresults 1`: the Id of the first
\* account of that name, 0 when there is none.  Ids are handed out in order
\* of creation.
FindAccountId(company, name) ==
    LET hits == {i \in 1..Len(company.accounts) : company.accounts[i] = name}
    IN  IF hits = {} THEN 0 ELSE CHOOSE i \in hits : \A j \in hits : i <= j

\* The records `select Id, PrivateNote from <entity> where TxnDate='<date>'`
\* selects among those the sync wrote.
SameDay(company, entity, date) ==
    {i \in 1..Len(company.txns) :
        company.txns[i].entity = entity /\ company.txns[i].TxnDate = date}

\* The result sets the query can return under `maxresults 200`: the bucket
\* also holds otherPerDay records of other origin, and the backend returns
\* any MaxResults of the bucket when it holds more.
QueryResults(company, entity, date) ==
    LET mine == SameDay(company, entity, date)
        m == Cardinality(mine)
        returned == Min(MaxResults, m + otherPerDay)
    IN  {S \in SUBSET mine :
            /\ Cardinality(S) <= Min(m, returned)
            /\ Cardinality(S) >= returned - Min(otherPerDay, returned)}

\* JSON.stringify of a string value: quotes and backslashes escaped, the
\* whole in quotes.
RECURSIVE JsonEscape(_)
JsonEscape(s) ==
    IF s = <<>> THEN <<>>
    ELSE (IF Head(s) \in {"\"", "\\"} THEN <<"\\", Head(s)>> ELSE <<Head(s)>>)
            \o JsonEscape(Tail(s))

JsonStringify(s) == <<"\"">> \o JsonEscape(s) \o <<"\"">>

\* JSON.parse of a string literal.
RECURSIVE JsonUnescape(_)
JsonUnescape(s) ==
    IF s = <<>> THEN <<>>
    ELSE IF Head(s) = "\\" /\ Len(s) >= 2
    THEN <<s[2]>> \o JsonUnescape(SubSeq(s, 3, Len(s)))
    ELSE <<Head(s)>> \o JsonUnescape(Tail(s))

JsonParse(j) == JsonUnescape(SubSeq(j, 2, Len(j) - 1))

\* A string value as it arrives on the other side of a JSON body: the
\* PrivateNote of a POST as the backend reads it, and the PrivateNote of a
\* query response as the handler reads it.
OverJson(s) == JsonParse(JsonStringify(s))

\* The loop of qboExistsTransferByKey / qboExistsDepositByKey over the
\* candidates: c.PrivateNote === key.
qboExistsByKey(company, candidates, key) ==
    \E i \in candidates : OverJson(company.txns[i].PrivateNote) = key

\* A Transfer payload without the annotation.
UnannotatedTransferPayload(fromAccountId, toAccountId, net, privateNoteKey, txnDate) ==
    [ entity |-> "Transfer", TxnDate |-> txnDate, PrivateNote |-> <<>>,
      Amount |-> AmountCents(net),
      DepositToAccountRef |-> 0, LineAccountRef |-> 0,
      FromAccountRef |-> fromAccountId, ToAccountRef |-> toAccountId ]

\* A backend that stores a posted record twice.
PostEntityTwice(txns, payload) == Append(Append(txns, payload), payload)

\* A backend that enforces one record per PrivateNote: the POST of a note
\* it holds already leaves the company as it is.
PostEntityUnique(txns, payload) ==
    IF \E i \in 1..Len(txns) : txns[i].PrivateNote = payload.PrivateNote
    THEN txns ELSE Append(txns, payload)

\* The POST of createQboDeposit / createQboTransfer as the backend applies
\* it: one more record, whatever the company holds already.
PostEntity(txns, payload) == Append(txns, payload)

\* A Deposit payload with the two account references exchanged.
SwappedDepositPayload(depositToAccountId, sourceAccountId, net, privateNoteKey, txnDate) ==
    [ entity |-> "Deposit", TxnDate |-> txnDate, PrivateNote |-> privateNoteKey,
      Amount |-> AmountCents(net),
      DepositToAccountRef |-> sourceAccountId, LineAccountRef |-> depositToAccountId,
      FromAccountRef |-> 0, ToAccountRef |-> 0 ]

\* The payload of createQboDeposit as the backend stores it.
DepositPayload(depositToAccountId, sourceAccountId, net, privateNoteKey, txnDate) ==
    [ entity |-> "Deposit", TxnDate |-> txnDate,
      PrivateNote |-> OverJson(privateNoteKey),
      Amount |-> AmountCents(net),
      DepositToAccountRef |-> depositToAccountId, LineAccountRef |-> sourceAccountId,
      FromAccountRef |-> 0, ToAccountRef |-> 0 ]

\* The payload of createQboTransfer as the backend stores it.
TransferPayload(fromAccountId, toAccountId, net, privateNoteKey, txnDate) ==
    [ entity |-> "Transfer", TxnDate |-> txnDate,
      PrivateNote |-> OverJson(privateNoteKey),
      Amount |-> AmountCents(net),
      DepositToAccountRef |-> 0, LineAccountRef |-> 0,
      FromAccountRef |-> fromAccountId, ToAccountRef |-> toAccountId ]

\* ------------------------------------------------------------------------
\* The /syncHederaToQbo request
\* ------------------------------------------------------------------------

\* A request: where its handler waits (pc), the process serving it, the
\* handler's locals (companyRealmId, target, the account ids, txs as the
\* mirror length n it was fetched at, the loop index idx, toAccountId,
\* results), the account lookup in progress (role, name), and history: how
\* the query before the pending create was answered (ans), the number
\* of records created, and whether the run immediately succeeds a completed
\* run over the same page (succ, prevN).
IdleRun ==
    [ pc |-> "idle", proc |-> Null, realm |-> Null, target |-> Null,
      role |-> Null, name |-> <<>>, n |-> 0, idx |-> 0,
      targetWalletId |-> 0, clearingId |-> 0, externalOutflowId |-> 0,
      toAccountId |-> 0, results |-> <<>>,
      ans |-> Null, created |-> 0, succ |-> FALSE, prevN |-> 0 ]

Finished == {"idle", "done", "failed"}

NoDone == [has |-> FALSE, proc |-> Null, realm |-> Null, target |-> Null, n |-> 0]

\* txs of the handler, and the transaction a run is working on.
Txs(rs) == Page(rs.n, rs.target)

CurTx(rs) == Txs(rs)[rs.idx]

CurNet(rs) == netTinybarFor(CurTx(rs), rs.target)

CurKey(rs) == makeIdempotencyKey(CurTx(rs))

CurDate(rs) == toTxnDateFromConsensus(CurTx(rs).consensus_timestamp, today).day

CurEntity(rs) == IF CurNet(rs) > 0 THEN "Deposit" ELSE "Transfer"

\* The call goes out under the process's current token: the backend refuses
\* it unless that token is bound to the company in the URL.
Authorized(rs) == token[rs.proc].has /\ token[rs.proc].realmId = rs.realm

Answer(rs, o) == IF Authorized(rs) THEN o ELSE "throw"

\* The catch of the handler: res.status(500) with the error's text.  The
\* handler's locals, the outcome list among them, are gone.
Fail(rs) ==
    [IdleRun EXCEPT !.pc = "failed", !.proc = rs.proc, !.realm = rs.realm,
                    !.target = rs.target, !.succ = rs.succ]

\* res.send(html): the report is built from results; the other locals are gone.
Report(rs) ==
    [IdleRun EXCEPT !.pc = "done", !.proc = rs.proc, !.realm = rs.realm,
                    !.target = rs.target, !.n = rs.n, !.results = rs.results,
                    !.created = rs.created, !.succ = rs.succ]

\* A loop that leaves the rest of the page unprocessed.
AbandonedLoop(rs, i, seen) == [run |-> Report(rs), seen |-> seen]

\* The for loop from page index i to its next await: skips zero net movement
\* and keys the cache knows, and stops at the first transaction that needs
\* the backend, or at the report.  Returns the request and the cache.
RECURSIVE Loop(_, _, _)
Loop(rs, i, seen) ==
    IF i > Len(Txs(rs)) THEN [run |-> Report(rs), seen |-> seen]
    ELSE
      LET tx == Txs(rs)[i]
          net == netTinybarFor(tx, rs.target)
          key == makeIdempotencyKey(tx)
          mem == alreadyProcessedInMemory(seen, key)
          toTracked == FindTracked(otherAccountsInTransfer(tx, rs.target))
      IN  IF ZeroMovement(net) THEN Loop(rs, i + 1, seen)
          ELSE IF toTxnDateFromConsensus(tx.consensus_timestamp, today).throws
          THEN [run |-> Fail(rs), seen |-> seen]
          ELSE IF mem.result
          THEN Loop([rs EXCEPT !.results =
                        Append(@, [kind |-> "SKIPPED_MEMORY", type |-> "-",
                                   key |-> key, pos |-> i])],
                    i + 1, seen)
          ELSE IF net > 0
          THEN [run |-> [rs EXCEPT !.pc = "exists", !.idx = i], seen |-> mem.seen]
          ELSE IF toTracked # Null
          THEN [run |-> [rs EXCEPT !.pc = "find", !.idx = i, !.role = "to",
                                   !.name = hederaWalletAccountName(toTracked)],
                seen |-> mem.seen]
          ELSE [run |-> [rs EXCEPT !.pc = "exists", !.idx = i,
                                   !.toAccountId = rs.externalOutflowId],
                seen |-> mem.seen]

\* getOrCreateQboAccount returned id: the handler stores it and goes on to
\* its next await.
Resolved(rs, id) ==
    CASE rs.role = "wallet" ->
            [rs EXCEPT !.targetWalletId = id, !.pc = "find",
                       !.role = "clearing", !.name = ClearingName]
      [] rs.role = "clearing" ->
            [rs EXCEPT !.clearingId = id, !.pc = "find",
                       !.role = "external", !.name = ExternalOutflowName]
      [] rs.role = "external" ->
            [rs EXCEPT !.externalOutflowId = id, !.pc = "mirror"]
      [] rs.role = "to" ->
            [rs EXCEPT !.toAccountId = id, !.pc = "exists"]

\* History: request r moves to rs.  A request is `succ` while it is the
\* second of two immediately successive runs: it started as the next event
\* after a run for the same account and company completed, and it fetched
\* the page that run had fetched (prevN holds that page's length until the
\* fetch).  A step of anything else ends the succession of a request in
\* flight.
SetRun(r, rs) ==
    [q \in Reqs |->
        IF q = r THEN rs
        ELSE IF run[q].pc \in Finished THEN run[q]
        ELSE [run[q] EXCEPT !.succ = FALSE]]

Disturbed == [q \in Reqs |->
                 IF run[q].pc \in Finished THEN run[q]
                 ELSE [run[q] EXCEPT !.succ = FALSE]]

DoneMark(rs) ==
    IF rs.pc = "done"
    THEN [has |-> TRUE, proc |-> rs.proc, realm |-> rs.realm, target |-> rs.target,
          n |-> rs.n]
    ELSE NoDone

\* History of the cache after a step: the entries of the keys still in it,
\* and each key the step added with the company (companyRealmId) of the
\* request whose loop added it.
SeenUnderNext(companyRealmId) ==
    [p \in Procs |->
        {e \in seenUnder[p] : e[1] \in seenKeys'[p]}
            \cup {<<k, companyRealmId>> : k \in seenKeys'[p] \ seenKeys[p]}]

\* ------------------------------------------------------------------------
\* Initial state: fresh processes, an empty company file
\* ------------------------------------------------------------------------

\* The same-day records of other origin a company may hold per bucket.
OtherLoads == {0, MaxResults}

NoCallback == [pending |-> FALSE, realm |-> Null]

\* No helper application under study.
NoProbe == [op |-> Null]

Init ==
    /\ token = [p \in Procs |-> NoToken]
    /\ realmId = [p \in Procs |-> Null]
    /\ seenKeys = [p \in Procs |-> {}]
    /\ callback = [p \in Procs |-> NoCallback]
    /\ run = [r \in Reqs |-> IdleRun]
    /\ qbo = [c \in Realms |-> EmptyCompany]
    /\ mirrorLen = 1
    /\ otherPerDay \in OtherLoads
    /\ today = toTxnDateFromConsensus(Ledger[Len(Ledger)].consensus_timestamp, 0).day
    /\ lastDone = NoDone
    /\ seenUnder = [p \in Procs |-> {}]
    /\ probe = NoProbe
    /\ recovered = FALSE

\* ------------------------------------------------------------------------
\* /callback (src/quickbook-sync.js:123-188)
\* ------------------------------------------------------------------------

\* The handler up to `await oauthClient.createToken(req.url)`.
CallbackBegin(p, newRealmId) ==
    /\ ~callback[p].pending
    /\ seenKeys' = [seenKeys EXCEPT ![p] =
            IF realmId[p] # Null /\ newRealmId # Null /\ realmId[p] # newRealmId
            THEN {} ELSE @]
    /\ realmId' = [realmId EXCEPT ![p] = newRealmId]
    /\ callback' = [callback EXCEPT ![p] = [pending |-> TRUE, realm |-> newRealmId]]
    /\ run' = Disturbed
    /\ lastDone' = NoDone
    /\ seenUnder' = SeenUnderNext(Null)
    /\ UNCHANGED <<token, qbo, mirrorLen, otherPerDay, today, probe, recovered>>

\* createToken resolves with a token bound to the callback's realm, or
\* rejects and leaves the client's token as it was.
CallbackToken(p, ok) ==
    /\ callback[p].pending
    /\ token' = [token EXCEPT ![p] =
            IF ok THEN [has |-> TRUE, realmId |-> callback[p].realm] ELSE @]
    /\ callback' = [callback EXCEPT ![p] = NoCallback]
    /\ run' = Disturbed
    /\ lastDone' = NoDone
    /\ UNCHANGED <<realmId, seenKeys, qbo, mirrorLen, otherPerDay, today,
                   probe, seenUnder, recovered>>

\* ------------------------------------------------------------------------
\* /syncHederaToQbo (src/quickbook-sync.js:411-562)
\* ------------------------------------------------------------------------

\* The request arrives: realm check, target, and the first account lookup
\* goes out.
StartSync(r, p, account) ==
    LET chk == getCompanyRealmIdOrThrow(p)
        target == IF account = Null THEN TARGET_HEDERA_ACCOUNT ELSE account
        follows == /\ lastDone.has
                   /\ lastDone.target = target
                   /\ lastDone.realm = chk.realm
        base == [IdleRun EXCEPT !.proc = p, !.target = target]
    IN  /\ run[r].pc \in Finished
        /\ run' = SetRun(r,
              IF ~chk.ok THEN Fail(base)
              ELSE [base EXCEPT !.pc = "find", !.realm = chk.realm,
                                !.role = "wallet",
                                !.name = hederaWalletAccountName(target),
                                !.succ = follows,
                                !.prevN = IF follows THEN lastDone.n ELSE 0])
        /\ lastDone' = NoDone
        /\ UNCHANGED <<token, realmId, seenKeys, callback, qbo, mirrorLen,
                       otherPerDay, today, probe, seenUnder, recovered>>

\* getOrCreateQboAccount, the find query answers.
AccountFind(r, o) ==
    LET rs == run[r]
        a == Answer(rs, o)
        found == IF a = "ok" THEN FindAccountId(qbo[rs.realm], rs.name) ELSE 0
    IN  /\ rs.pc = "find"
        /\ run' = SetRun(r,
              IF a = "throw" THEN Fail(rs)
              ELSE IF found # 0 THEN Resolved(rs, found)
              ELSE [rs EXCEPT !.pc = "mkacct", !.ans = a])
        /\ lastDone' = NoDone
        /\ UNCHANGED <<token, realmId, seenKeys, callback, qbo, mirrorLen,
                       otherPerDay, today, probe, seenUnder, recovered>>

\* getOrCreateQboAccount, the create answers.  The backend keeps account
\* names unique and answers a second create of a name with a Fault.
AccountCreate(r, o) ==
    LET rs == run[r]
        company == qbo[rs.realm]
        a == IF Answer(rs, o) = "ok" /\ FindAccountId(company, rs.name) # 0
             THEN "fault" ELSE Answer(rs, o)
    IN  /\ rs.pc = "mkacct"
        /\ IF a = "ok"
           THEN /\ qbo' = [qbo EXCEPT ![rs.realm].accounts = Append(@, rs.name)]
                /\ run' = SetRun(r, Resolved([rs EXCEPT !.ans = Null],
                                              Len(company.accounts) + 1))
           ELSE /\ qbo' = qbo
                /\ run' = SetRun(r, Fail(rs))
        /\ lastDone' = NoDone
        /\ UNCHANGED <<token, realmId, seenKeys, callback, mirrorLen,
                       otherPerDay, today, probe, seenUnder, recovered>>

\* fetchMirrorTransactionsForAccount answers; the loop starts.
MirrorFetch(r, ok) ==
    LET rs == run[r]
        nxt == Loop([rs EXCEPT !.n = mirrorLen, !.prevN = 0,
                               !.succ = @ /\ Page(mirrorLen, rs.target) =
                                               Page(rs.prevN, rs.target)],
                    1, seenKeys[rs.proc])
    IN  /\ rs.pc = "mirror"
        /\ IF ok
           THEN /\ run' = SetRun(r, nxt.run)
                /\ seenKeys' = [seenKeys EXCEPT ![rs.proc] = nxt.seen]
                /\ lastDone' = DoneMark(nxt.run)
           ELSE /\ run' = SetRun(r, Fail(rs))
                /\ seenKeys' = seenKeys
                /\ lastDone' = NoDone
        /\ seenUnder' = SeenUnderNext(rs.realm)
        /\ UNCHANGED <<token, realmId, callback, qbo, mirrorLen, otherPerDay,
                       today, probe, recovered>>

\* qboExistsDepositByKey / qboExistsTransferByKey answers.
ExistsQuery(r, o) ==
    LET rs == run[r]
        a == Answer(rs, o)
        company == qbo[rs.realm]
    IN  /\ rs.pc = "exists"
        /\ \E candidates \in
                IF a = "ok" THEN QueryResults(company, CurEntity(rs), CurDate(rs))
                ELSE {{}} :
              LET exists == qboExistsByKey(company, candidates, CurKey(rs))
                  nxt == Loop([rs EXCEPT !.results =
                                  Append(@, [kind |-> "SKIPPED_QBO",
                                             type |-> CurEntity(rs),
                                             key |-> CurKey(rs), pos |-> rs.idx])],
                              rs.idx + 1, seenKeys[rs.proc])
              IN  IF a = "throw"
                  THEN /\ run' = SetRun(r, Fail(rs))
                       /\ seenKeys' = seenKeys
                       /\ lastDone' = NoDone
                  ELSE IF exists
                  THEN /\ run' = SetRun(r, nxt.run)
                       /\ seenKeys' = [seenKeys EXCEPT ![rs.proc] = nxt.seen]
                       /\ lastDone' = DoneMark(nxt.run)
                  ELSE /\ run' = SetRun(r, [rs EXCEPT !.pc = "create", !.ans = a])
                       /\ seenKeys' = seenKeys
                       /\ lastDone' = NoDone
        /\ seenUnder' = SeenUnderNext(rs.realm)
        /\ UNCHANGED <<token, realmId, callback, qbo, mirrorLen, otherPerDay,
                       today, probe, recovered>>

\* createQboDeposit / createQboTransfer answers.
Create(r, o) ==
    LET rs == run[r]
        a == Answer(rs, o)
        payload ==
            IF CurNet(rs) > 0
            THEN DepositPayload(rs.targetWalletId, rs.clearingId, CurNet(rs),
                                CurKey(rs), CurDate(rs))
            ELSE TransferPayload(rs.targetWalletId, rs.toAccountId, CurNet(rs),
                                 CurKey(rs), CurDate(rs))
        nxt == Loop([rs EXCEPT !.ans = Null, !.results =
                        Append(@, [kind |-> "CREATED", type |-> CurEntity(rs),
                                   key |-> CurKey(rs), pos |-> rs.idx]),
                               !.created = @ + 1],
                    rs.idx + 1, seenKeys[rs.proc])
    IN  /\ rs.pc = "create"
        /\ Len(qbo[rs.realm].txns) < MaxRecords
        /\ IF a = "ok"
           THEN /\ qbo' = [qbo EXCEPT ![rs.realm].txns = PostEntity(@, payload)]
                /\ run' = SetRun(r, nxt.run)
                /\ seenKeys' = [seenKeys EXCEPT ![rs.proc] = nxt.seen]
                /\ lastDone' = DoneMark(nxt.run)
           ELSE /\ qbo' = qbo
                /\ run' = SetRun(r, Fail(rs))
                /\ seenKeys' = seenKeys
                /\ lastDone' = NoDone
        /\ seenUnder' = SeenUnderNext(rs.realm)
        /\ UNCHANGED <<token, realmId, callback, mirrorLen, otherPerDay,
                       today, probe, recovered>>

\* ------------------------------------------------------------------------
\* /getCompanyInfo, /listAccounts, /listTransfers, /listDeposits
\* (src/quickbook-sync.js:199-209, 588-713)
\* ------------------------------------------------------------------------

ReadRoutes == {"getCompanyInfo", "listAccounts", "listTransfers", "listDeposits"}

\* The request arrives: realm check, and the one backend call goes out.
ReadStart(r, p, route) ==
    LET chk == getCompanyRealmIdOrThrow(p)
        base == [IdleRun EXCEPT !.proc = p, !.role = route]
    IN  /\ run[r].pc \in Finished
        /\ run' = SetRun(r,
              IF ~chk.ok THEN Fail(base)
              ELSE [base EXCEPT !.pc = "read", !.realm = chk.realm])
        /\ lastDone' = NoDone
        /\ UNCHANGED <<token, realmId, seenKeys, callback, qbo, mirrorLen,
                       otherPerDay, today, seenUnder, probe, recovered>>

\* The call answers: the page is sent, or the catch answers 500.
ReadAnswer(r, o) ==
    LET rs == run[r]
    IN  /\ rs.pc = "read"
        /\ run' = SetRun(r, IF Answer(rs, o) = "throw" THEN Fail(rs) ELSE Report(rs))
        /\ lastDone' = NoDone
        /\ UNCHANGED <<token, realmId, seenKeys, callback, qbo, mirrorLen,
                       otherPerDay, today, seenUnder, probe, recovered>>

\* ------------------------------------------------------------------------
\* The environment
\* ------------------------------------------------------------------------

\* The mirror node indexes the next ledger transaction.
MirrorAdvance ==
    /\ mirrorLen < Len(Ledger)
    /\ mirrorLen' = mirrorLen + 1
    /\ run' = Disturbed
    /\ lastDone' = NoDone
    /\ UNCHANGED <<token, realmId, seenKeys, callback, qbo, otherPerDay,
                   today, probe, seenUnder, recovered>>

\* Process p is restarted: its module state is built anew and the requests
\* it was serving are gone.
Restart(p) ==
    /\ token' = [token EXCEPT ![p] = NoToken]
    /\ realmId' = [realmId EXCEPT ![p] = Null]
    /\ seenKeys' = [seenKeys EXCEPT ![p] = {}]
    /\ callback' = [callback EXCEPT ![p] = NoCallback]
    /\ run' = [q \in Reqs |-> IF run[q].proc = p THEN IdleRun ELSE Disturbed[q]]
    /\ lastDone' = NoDone
    /\ seenUnder' = SeenUnderNext(Null)
    /\ UNCHANGED <<qbo, mirrorLen, otherPerDay, today, probe, recovered>>

\* ------------------------------------------------------------------------
\* Spec: one server process serving one request at a time against one
\* company, with every failure of the backend and the mirror node, restarts
\* and re-authorization.
\* ------------------------------------------------------------------------

Server == "p1"

Slot == "q1"

Company == "realmA"

Next ==
    \/ \E c \in {Company, Null} : CallbackBegin(Server, c)
    \/ \E ok \in BOOLEAN : CallbackToken(Server, ok)
    \/ \E account \in QueryAccounts : StartSync(Slot, Server, account)
    \/ \E o \in Outcomes : AccountFind(Slot, o)
    \/ \E o \in Outcomes : AccountCreate(Slot, o)
    \/ \E ok \in BOOLEAN : MirrorFetch(Slot, ok)
    \/ \E o \in Outcomes : ExistsQuery(Slot, o)
    \/ \E o \in Outcomes : Create(Slot, o)
    \/ MirrorAdvance
    \/ Restart(Server)

Spec == Init /\ [][Next]_vars

\* ------------------------------------------------------------------------
\* CleanSpec: as Spec, with a backend and a mirror node that answer every
\* call and same-day buckets below the query cap.
\* ------------------------------------------------------------------------

CleanInit == Init /\ otherPerDay = 0

CleanNext ==
    \/ CallbackBegin(Server, Company)
    \/ CallbackToken(Server, TRUE)
    \/ \E account \in QueryAccounts : StartSync(Slot, Server, account)
    \/ AccountFind(Slot, "ok")
    \/ AccountCreate(Slot, "ok")
    \/ MirrorFetch(Slot, TRUE)
    \/ ExistsQuery(Slot, "ok")
    \/ Create(Slot, "ok")
    \/ MirrorAdvance
    \/ Restart(Server)

CleanSpec == CleanInit /\ [][CleanNext]_vars

\* ------------------------------------------------------------------------
\* ConcSpec: two server processes and two requests in flight against one
\* company; the backend and the mirror node answer every call.
\* ------------------------------------------------------------------------

ConcNext ==
    \/ \E p \in Procs : CallbackBegin(p, Company)
    \/ \E p \in Procs : CallbackToken(p, TRUE)
    \/ \E r \in Reqs, p \in Procs, account \in QueryAccounts : StartSync(r, p, account)
    \/ \E r \in Reqs : AccountFind(r, "ok")
    \/ \E r \in Reqs : AccountCreate(r, "ok")
    \/ \E r \in Reqs : MirrorFetch(r, TRUE)
    \/ \E r \in Reqs : ExistsQuery(r, "ok")
    \/ \E r \in Reqs : Create(r, "ok")

ConcSpec == CleanInit /\ [][ConcNext]_vars

\* ------------------------------------------------------------------------
\* SessionSpec: one server process that is authorized, by any sequence of
\* callbacks, for either of two companies or for none, serving one request
\* at a time, sync or read; the backend answers every call it accepts.
\* ------------------------------------------------------------------------

SessionNext ==
    \/ \E c \in Realms \cup {Null} : CallbackBegin(Server, c)
    \/ \E ok \in BOOLEAN : CallbackToken(Server, ok)
    \/ StartSync(Slot, Server, Null)
    \/ AccountFind(Slot, "ok")
    \/ AccountCreate(Slot, "ok")
    \/ MirrorFetch(Slot, TRUE)
    \/ ExistsQuery(Slot, "ok")
    \/ Create(Slot, "ok")
    \/ \E route \in ReadRoutes : ReadStart(Slot, Server, route)
    \/ ReadAnswer(Slot, "ok")

SessionSpec == CleanInit /\ [][SessionNext]_vars

\* ------------------------------------------------------------------------
\* RetrySpec: one server process that is never restarted and stays
\* authorized for one company, on which the sync of the default account is
\* run again and again; every backend and mirror call may fail until the
\* backend recovers.  A finished request is followed by another, and every
\* awaited call settles.
\* ------------------------------------------------------------------------

\* The state after /callback for Company has completed on Server.
RetryInit ==
    /\ token = [p \in Procs |->
            IF p = Server THEN [has |-> TRUE, realmId |-> Company] ELSE NoToken]
    /\ realmId = [p \in Procs |-> IF p = Server THEN Company ELSE Null]
    /\ seenKeys = [p \in Procs |-> {}]
    /\ callback = [p \in Procs |-> NoCallback]
    /\ run = [r \in Reqs |-> IdleRun]
    /\ qbo = [c \in Realms |-> EmptyCompany]
    /\ mirrorLen = 1
    /\ otherPerDay = 0
    /\ today = toTxnDateFromConsensus(Ledger[Len(Ledger)].consensus_timestamp, 0).day
    /\ lastDone = NoDone
    /\ seenUnder = [p \in Procs |-> {}]
    /\ probe = NoProbe
    /\ recovered = FALSE

\* From now on the backend and the mirror node accept every call.
BackendRecovers ==
    /\ ~recovered
    /\ recovered' = TRUE
    /\ UNCHANGED <<token, realmId, seenKeys, callback, run, qbo, mirrorLen,
                   otherPerDay, today, lastDone, seenUnder, probe>>

\* The answers a call can get.
Answers == IF recovered THEN {"ok"} ELSE Outcomes

Fetches == IF recovered THEN {TRUE} ELSE BOOLEAN

RetryNext ==
    \/ StartSync(Slot, Server, Null)
    \/ \E o \in Answers : AccountFind(Slot, o)
    \/ \E o \in Answers : AccountCreate(Slot, o)
    \/ \E ok \in Fetches : MirrorFetch(Slot, ok)
    \/ \E o \in Answers : ExistsQuery(Slot, o)
    \/ \E o \in Answers : Create(Slot, o)
    \/ MirrorAdvance
    \/ BackendRecovers

\* The next request arrives (weak fairness of StartSync), and a request does
\* not wait for ever: each awaited call resolves or rejects, after which the
\* handler runs to its next await or to its response.  The only step of a
\* request in flight is the answer to its pending call, so this is weak
\* fairness of the five answer actions.
RetryFairness ==
    /\ WF_vars(StartSync(Slot, Server, Null))
    /\ []<>(run[Slot].pc \in Finished)

RetrySpec == RetryInit /\ [][RetryNext]_vars /\ RetryFairness

\* ------------------------------------------------------------------------
\* SharedSpec: one server process serving two sync requests of the default
\* account at a time, and authorized, by any sequence of callbacks, for
\* either of two companies; the backend and the mirror node answer every
\* call.
\* ------------------------------------------------------------------------

SharedNext ==
    \/ \E c \in Realms : CallbackBegin(Server, c)
    \/ CallbackToken(Server, TRUE)
    \/ \E r \in Reqs : StartSync(r, Server, Null)
    \/ \E r \in Reqs : AccountFind(r, "ok")
    \/ \E r \in Reqs : AccountCreate(r, "ok")
    \/ \E r \in Reqs : MirrorFetch(r, TRUE)
    \/ \E r \in Reqs : ExistsQuery(r, "ok")
    \/ \E r \in Reqs : Create(r, "ok")

SharedSpec == CleanInit /\ [][SharedNext]_vars

\* ------------------------------------------------------------------------
\* HelperSpec: one application of a pure helper (makeIdempotencyKey,
\* toTxnDateFromConsensus, the amount conversion, the payload builders) to
\* inputs drawn from the sets below; the server is idle.
\* ------------------------------------------------------------------------

\* The characters of the probed id and timestamp fields, and their length.
FieldChars == {"1", ":"}

MaxFieldLen == 2

\* A field of a probed transaction: missing, or a string of at most
\* MaxFieldLen characters.
FieldValues ==
    {Undefined} \cup UNION {[1..k -> FieldChars] : k \in 0..MaxFieldLen}

ProbeTxs == [transaction_id : FieldValues, consensus_timestamp : FieldValues]

\* Consensus timestamps: missing, empty, without integer part, not a
\* number, the epoch, one day, the ledger's timestamps, and seconds beyond
\* the range of a Date.
DateInputs ==
    { Undefined, <<>>, <<".", "5">>, <<"x">>, <<"x", ".", "5">>,
      <<"0">>, <<"8", "6", "4", "0", "0", ".", "0">>,
      Tx1.consensus_timestamp, Tx3.consensus_timestamp,
      <<"9","9","9","9","9","9","9","9","9","9","9","9","9","9",".","0">> }

\* The wall-clock days of two runs.
WallClockDays == {d \in 19676..19677 : TRUE}

\* Net movements in tinybar: around every hundredth below MaxTieCents, on
\* it, just below, on and just above its half, of either sign, and the
\* whole amounts of the ledger.
AmountInputs ==
    {sign * (q * TinybarPerCent + rest) :
        sign \in {-1, 1}, q \in 0..(MaxTieCents - 1),
        rest \in {0, 1, (TinybarPerCent \div 2) - 1, TinybarPerCent \div 2,
                  (TinybarPerCent \div 2) + 1}}
        \cup {netTinybarFor(Tx1, "0.0.100"), netTinybarFor(Tx2, "0.0.100")}

\* makeIdempotencyKey applied to two transactions.
KeyProbe(a, b) ==
    /\ probe = NoProbe
    /\ probe' = [op |-> "key", a |-> a, b |-> b,
                 ka |-> makeIdempotencyKey(a), kb |-> makeIdempotencyKey(b)]
    /\ UNCHANGED <<token, realmId, seenKeys, callback, run, qbo, mirrorLen,
                   otherPerDay, today, lastDone, seenUnder, recovered>>

\* toTxnDateFromConsensus applied to one timestamp in two runs.
DateProbe(ts, now1, now2) ==
    /\ probe = NoProbe
    /\ probe' = [op |-> "date", ts |-> ts, now1 |-> now1, now2 |-> now2,
                 d1 |-> toTxnDateFromConsensus(ts, now1),
                 d2 |-> toTxnDateFromConsensus(ts, now2)]
    /\ UNCHANGED <<token, realmId, seenKeys, callback, run, qbo, mirrorLen,
                   otherPerDay, today, lastDone, seenUnder, recovered>>

\* Number(amount.toFixed(2)) applied to one net movement.
AmountProbe(net) ==
    /\ probe = NoProbe
    /\ probe' = [op |-> "amount", net |-> net, cents |-> AmountCents(net)]
    /\ UNCHANGED <<token, realmId, seenKeys, callback, run, qbo, mirrorLen,
                   otherPerDay, today, lastDone, seenUnder, recovered>>

\* The payload the loop submits for a transaction of the given net movement
\* (lines 426-429, then createQboDeposit or createQboTransfer): none for a
\* net of 0, a Deposit for an inflow, a Transfer for an outflow.
PayloadProbe(net) ==
    /\ probe = NoProbe
    /\ ~ZeroMovement(net)
    /\ probe' = [op |-> "payload", net |-> net,
                 payload |->
                    IF net > 0
                    THEN DepositPayload(1, 2, net, makeIdempotencyKey(Tx1),
                                        toTxnDateFromConsensus(Tx1.consensus_timestamp, today).day)
                    ELSE TransferPayload(1, 3, net, makeIdempotencyKey(Tx1),
                                         toTxnDateFromConsensus(Tx1.consensus_timestamp, today).day)]
    /\ UNCHANGED <<token, realmId, seenKeys, callback, run, qbo, mirrorLen,
                   otherPerDay, today, lastDone, seenUnder, recovered>>

HelperNext ==
    /\ probe = NoProbe
    /\ \/ \E a, b \in ProbeTxs : KeyProbe(a, b)
       \/ \E ts \in DateInputs, now1, now2 \in WallClockDays : DateProbe(ts, now1, now2)
       \/ \E net \in AmountInputs : AmountProbe(net)
       \/ \E net \in AmountInputs : PayloadProbe(net)

HelperSpec == CleanInit /\ [][HelperNext]_vars

\* ------------------------------------------------------------------------
\* Vocabulary of the properties
\* ------------------------------------------------------------------------

Entities == {"Deposit", "Transfer"}

LedgerKeys == {makeIdempotencyKey(Ledger[i]) : i \in 1..Len(Ledger)}

\* The records of a company whose PrivateNote is the key.
WithKey(company, key) ==
    {i \in 1..Len(company.txns) : company.txns[i].PrivateNote = key}

\* The awaited calls of the per-transaction loop (lines 425-489): the lazy
\* counterparty lookup, the duplicate check and the create.
InLoopCall(rs) ==
    \/ rs.pc \in {"exists", "create"}
    \/ rs.pc \in {"find", "mkacct"} /\ rs.role = "to"

HasOutcome(rs, kind, key) ==
    \E j \in 1..Len(rs.results) : rs.results[j].kind = kind /\ rs.results[j].key = key

\* ------------------------------------------------------------------------
\* C1  Idempotence of the sync
\* ------------------------------------------------------------------------

\* C1: a sync run that starts right after a sync run for the same account
\* and company has completed (no other request, callback, restart or mirror
\* change in between, so it sees the same page) writes nothing: every step
\* of the second run leaves the backend, accounts and records, as it was.
C1_SecondRunWritesNothing ==
    [][\A r \in Reqs : (run[r].succ /\ run'[r].succ) => qbo' = qbo]_vars

\* A second run has completed with outcomes, over a company that holds records.
C1_Witness ==
    \E r \in Reqs :
        /\ run[r].pc = "done" /\ run[r].succ
        /\ run[r].results # <<>>
        /\ qbo[run[r].realm].txns # <<>>

\* ------------------------------------------------------------------------
\* C2  Exactly once per key
\* ------------------------------------------------------------------------

\* C2: with runs executed one at a time, restarts allowed, any targets, at
\* most one record (Deposit or Transfer, counted together) of a company
\* carries a given idempotency key.
C2_AtMostOneRecordPerKey ==
    \A c \in Realms, k \in LedgerKeys : Cardinality(WithKey(qbo[c], k)) <= 1

\* ------------------------------------------------------------------------
\* C3  Per-transaction failure isolation
\* ------------------------------------------------------------------------

\* C3: a backend call of the per-transaction loop that fails does not end
\* the request with the error response; the batch goes on and still answers
\* with its outcome list.
C3_LoopFailureDoesNotAbort ==
    [][\A r \in Reqs : InLoopCall(run[r]) => run'[r].pc # "failed"]_vars

\* ------------------------------------------------------------------------
\* C4  The second run's outcomes are all remote duplicates
\* ------------------------------------------------------------------------

\* C4: in the second of two immediately successive completed runs every
\* outcome is SKIPPED_QBO.
C4_SecondRunAllRemote ==
    \A r \in Reqs :
        (run[r].pc = "done" /\ run[r].succ) =>
            \A j \in 1..Len(run[r].results) : run[r].results[j].kind = "SKIPPED_QBO"

\* ------------------------------------------------------------------------
\* C5  Scope of the in-process duplicate guard
\* ------------------------------------------------------------------------

\* C5: an outcome SKIPPED_MEMORY is recorded only for a key that an earlier
\* transaction of the same run's page carried with non-zero net movement.
C5_LocalSkipOnlyWithinRun ==
    \A r \in Reqs :
        \A j \in 1..Len(run[r].results) :
            run[r].results[j].kind = "SKIPPED_MEMORY" =>
                \E i \in 1..(run[r].results[j].pos - 1) :
                    /\ makeIdempotencyKey(Txs(run[r])[i]) = run[r].results[j].key
                    /\ netTinybarFor(Txs(run[r])[i], run[r].target) # 0

\* ------------------------------------------------------------------------
\* C6  Non-atomic check-then-write
\* ------------------------------------------------------------------------

\* C6: nothing at write time stands for the check: every CREATED outcome of
\* the requests at hand is a record of its own in the company, so two
\* requests that each passed the existence check for one key leave two
\* records carrying it.
C6_EveryCreatedIsARecord ==
    \A c \in Realms, k \in LedgerKeys, e \in Entities :
        Cardinality({i \in WithKey(qbo[c], k) : qbo[c].txns[i].entity = e})
            >= Cardinality({r \in Reqs :
                    /\ run[r].realm = c
                    /\ \E j \in 1..Len(run[r].results) :
                          /\ run[r].results[j].kind = "CREATED"
                          /\ run[r].results[j].key = k
                          /\ run[r].results[j].type = e})

\* Two requests of different processes for the same account both created a
\* record for the same key: with a backend that answers every query in
\* full, each passed its existence check before the other wrote.
C6_Witness ==
    \E r1, r2 \in Reqs, k \in LedgerKeys :
        /\ r1 # r2
        /\ run[r1].proc # run[r2].proc
        /\ run[r1].realm = run[r2].realm
        /\ run[r1].target = run[r2].target
        /\ HasOutcome(run[r1], "CREATED", k)
        /\ HasOutcome(run[r2], "CREATED", k)
        /\ Cardinality(WithKey(qbo[run[r1].realm], k)) = 2

\* ------------------------------------------------------------------------
\* C7  A Fault in the body is a failure
\* ------------------------------------------------------------------------

\* C7: a duplicate-check query answered with a Fault body is never followed
\* by the create of that transaction.
C7_FaultedCheckNeverCreates ==
    \A r \in Reqs : ~(run[r].pc = "create" /\ run[r].ans = "fault")

\* ------------------------------------------------------------------------
\* C8  Zero-movement exclusion
\* ------------------------------------------------------------------------

\* The keys of the transactions of a request's page that move the target's
\* balance.
MovingKeys(rs) ==
    {makeIdempotencyKey(Txs(rs)[i]) :
        i \in {j \in 1..Len(Txs(rs)) : netTinybarFor(Txs(rs)[j], rs.target) # 0}}

\* C8: a transaction whose entries for the target sum to 0 leaves no trace:
\* no outcome of a request belongs to such a transaction, no backend call of
\* the loop is made for one, every write of a record is made for a
\* transaction that moves the target's balance, and every key that enters a
\* process's cache is the key of a transaction of a request's page on that
\* process that moves the target's balance.
C8_ZeroMovementLeavesNoTrace ==
    /\ [](\A r \in Reqs :
            /\ \A j \in 1..Len(run[r].results) :
                  netTinybarFor(Txs(run[r])[run[r].results[j].pos], run[r].target) # 0
            /\ InLoopCall(run[r]) => CurNet(run[r]) # 0)
    /\ [][/\ \A c \in Realms :
                qbo'[c].txns # qbo[c].txns =>
                    \E r \in Reqs : /\ run[r].pc = "create" /\ run[r].realm = c
                                    /\ CurNet(run[r]) # 0
          /\ \A p \in Procs :
                \A k \in seenKeys'[p] \ seenKeys[p] :
                    \E r \in Reqs : run'[r].proc = p /\ k \in MovingKeys(run'[r])]_vars

\* A run has completed with outcomes over a page that holds a transaction
\* whose entries for the target sum to 0, and the cache does not hold that
\* transaction's key.
C8_Witness ==
    \E r \in Reqs :
        /\ run[r].pc = "done" /\ run[r].results # <<>>
        /\ \E i \in 1..Len(Txs(run[r])) :
              LET tx == Txs(run[r])[i]
              IN  /\ \E e \in 1..Len(tx.transfers) :
                        tx.transfers[e].account = run[r].target
                  /\ netTinybarFor(tx, run[r].target) = 0
                  /\ makeIdempotencyKey(tx) \notin seenKeys[run[r].proc]

\* ------------------------------------------------------------------------
\* C9  Direction correctness
\* ------------------------------------------------------------------------

\* The record a step has appended to company c.
Written(c) == qbo'[c].txns[Len(qbo'[c].txns)]

\* C9: every step that changes the records of a company appends exactly one
\* record, for the transaction a request is creating: when the target's net
\* is positive it is a Deposit into the target's wallet account with the
\* clearing account as line source, when negative a Transfer out of the
\* target's wallet account.
C9_WriteMatchesDirection ==
    [][\A c \in Realms :
          qbo'[c].txns # qbo[c].txns =>
              \E r \in Reqs :
                  LET rs == run[r]
                      wallet == FindAccountId(qbo[c], hederaWalletAccountName(rs.target))
                      clearing == FindAccountId(qbo[c], ClearingName)
                  IN  /\ rs.pc = "create" /\ rs.realm = c
                      /\ qbo'[c].txns = Append(qbo[c].txns, Written(c))
                      /\ Written(c).PrivateNote = CurKey(rs)
                      /\ wallet # 0 /\ clearing # 0
                      /\ CurNet(rs) # 0
                      /\ CurNet(rs) > 0 =>
                            /\ Written(c).entity = "Deposit"
                            /\ Written(c).DepositToAccountRef = wallet
                            /\ Written(c).LineAccountRef = clearing
                      /\ CurNet(rs) < 0 =>
                            /\ Written(c).entity = "Transfer"
                            /\ Written(c).FromAccountRef = wallet]_vars

\* A company holds a Deposit and a Transfer.
C9_Witness ==
    \E c \in Realms :
        /\ \E i \in 1..Len(qbo[c].txns) : qbo[c].txns[i].entity = "Deposit"
        /\ \E i \in 1..Len(qbo[c].txns) : qbo[c].txns[i].entity = "Transfer"

\* ------------------------------------------------------------------------
\* C10  Transfer destination
\* ------------------------------------------------------------------------

\* The tracked accounts among the other entries of a transaction.
TrackedOthers(tx, targetId) ==
    {a \in {tx.transfers[i].account : i \in 1..Len(tx.transfers)} :
        a # targetId /\ \E i \in 1..Len(TRACKED_HEDERA_ACCOUNTS) :
                            TRACKED_HEDERA_ACCOUNTS[i] = a}

\* C10: every Transfer a step appends goes to the wallet account of a
\* tracked account among the transaction's other entries when there is one,
\* to the external-outflow account when there is none, and never to the
\* target's own wallet account.
C10_TransferDestination ==
    [][\A c \in Realms :
          (qbo'[c].txns # qbo[c].txns /\ Written(c).entity = "Transfer") =>
              \E r \in Reqs :
                  LET rs == run[r]
                      to == Written(c).ToAccountRef
                      tracked == TrackedOthers(CurTx(rs), rs.target)
                  IN  /\ rs.pc = "create" /\ rs.realm = c
                      /\ Written(c).PrivateNote = CurKey(rs)
                      /\ to # 0
                      /\ tracked # {} =>
                            \E a \in tracked :
                                to = FindAccountId(qbo[c], hederaWalletAccountName(a))
                      /\ tracked = {} =>
                            to = FindAccountId(qbo[c], ExternalOutflowName)
                      /\ to # FindAccountId(qbo[c], hederaWalletAccountName(rs.target))]_vars

\* A company holds a Transfer to a tracked counterparty's wallet account and
\* a Transfer to the external-outflow account.
C10_Witness ==
    \E c \in Realms :
        /\ \E i \in 1..Len(qbo[c].txns) :
              /\ qbo[c].txns[i].entity = "Transfer"
              /\ qbo[c].txns[i].ToAccountRef =
                    FindAccountId(qbo[c], hederaWalletAccountName("0.0.200"))
        /\ \E i \in 1..Len(qbo[c].txns) :
              /\ qbo[c].txns[i].entity = "Transfer"
              /\ qbo[c].txns[i].ToAccountRef = FindAccountId(qbo[c], ExternalOutflowName)

\* ------------------------------------------------------------------------
\* C11  The duplicate check's result
\* ------------------------------------------------------------------------

\* The company holds a record of the kind and date the request is checking
\* whose PrivateNote is the key of the transaction at hand.
Present(rs) ==
    \E i \in SameDay(qbo[rs.realm], CurEntity(rs), CurDate(rs)) :
        qbo[rs.realm].txns[i].PrivateNote = CurKey(rs)

\* The bucket the request is checking holds at most `maxresults` records.
WithinCap(rs) ==
    Cardinality(SameDay(qbo[rs.realm], CurEntity(rs), CurDate(rs))) + otherPerDay
        <= MaxResults

\* The awaited call of request r has returned to the handler: the request
\* has moved on, and neither to the catch nor by a restart of its process.
Returned(r) ==
    /\ run'[r].pc # run[r].pc \/ run'[r].idx # run[r].idx
    /\ run'[r].pc # "failed"
    /\ run'[r].proc = run[r].proc

\* C11: when the bucket holds at most 200 records, a duplicate check that
\* returns, returns true exactly when the company holds a record of that
\* kind and date with the key: the handler goes on to the create only when
\* there is none, and records the remote duplicate, writing nothing, only
\* when there is one.
C11_CheckAnswersPresence ==
    [][\A r \in Reqs :
          (run[r].pc = "exists" /\ WithinCap(run[r]) /\ Returned(r)) =>
                /\ (run'[r].pc = "create" /\ run'[r].idx = run[r].idx)
                        <=> ~Present(run[r])
                /\ Present(run[r]) =>
                        /\ qbo' = qbo
                        /\ \E j \in 1..Len(run'[r].results) :
                              /\ run'[r].results[j].kind = "SKIPPED_QBO"
                              /\ run'[r].results[j].pos = run[r].idx]_vars

\* ------------------------------------------------------------------------
\* C12  The annotation carries the key
\* ------------------------------------------------------------------------

\* 'hedera:<transaction_id>:<consensus_timestamp>' of a transaction.
NoteOf(tx) == <<"hedera", ":">> \o tx.transaction_id \o <<":">> \o tx.consensus_timestamp

\* C12: every record a step appends carries as PrivateNote exactly
\* 'hedera:<transaction_id>:<consensus_timestamp>' of the transaction the
\* request is creating it for, and the duplicate check of that transaction,
\* reading the record back, compares it with the identical string.
C12_NoteRoundTrips ==
    [][\A c \in Realms :
          qbo'[c].txns # qbo[c].txns =>
              \E r \in Reqs :
                  /\ run[r].pc = "create" /\ run[r].realm = c
                  /\ Written(c).PrivateNote = NoteOf(CurTx(run[r]))
                  /\ qboExistsByKey(qbo'[c], {Len(qbo'[c].txns)},
                                    makeIdempotencyKey(CurTx(run[r])))]_vars

\* A run has found, by the duplicate check, the record an earlier run wrote
\* for the same transaction.
C12_Witness ==
    \E r \in Reqs, k \in LedgerKeys :
        /\ run[r].pc = "done"
        /\ HasOutcome(run[r], "SKIPPED_QBO", k)
        /\ WithKey(qbo[run[r].realm], k) # {}

\* ------------------------------------------------------------------------
\* C13  An invalid session is fatal before any call
\* ------------------------------------------------------------------------

\* Process p has no token, a token without realmId, or remembers from its
\* last callback a realm other than the token's.
InvalidSession(p) ==
    \/ ~token[p].has
    \/ token[p].realmId = Null
    \/ realmId[p] # Null /\ realmId[p] # token[p].realmId

\* Request r arrives in this step.
Arrives(r) == run[r].pc \in Finished /\ run'[r] # run[r] /\ run'[r].proc \in Procs

\* C13: a request, sync or read, that arrives at a process whose session is
\* invalid is answered with the error at once: no backend call and no mirror
\* fetch goes out for it, and the backend and the cache stay as they were.
C13_InvalidSessionFailsAtOnce ==
    [][\A r \in Reqs :
          (Arrives(r) /\ InvalidSession(run'[r].proc)) =>
              /\ run'[r].pc = "failed"
              /\ qbo' = qbo
              /\ seenKeys' = seenKeys]_vars

\* A request was refused at a process that holds a token for one company
\* and remembers another from its last callback.
C13_Witness ==
    \E r \in Reqs :
        /\ run[r].pc = "failed" /\ run[r].realm = Null /\ run[r].proc \in Procs
        /\ token[run[r].proc].has /\ token[run[r].proc].realmId # Null
        /\ realmId[run[r].proc] # Null
        /\ realmId[run[r].proc] # token[run[r].proc].realmId

\* ------------------------------------------------------------------------
\* C14  Setup failures abort the run
\* ------------------------------------------------------------------------

\* The awaited calls before the loop: the three account bootstraps and the
\* mirror fetch.
InSetupCall(rs) ==
    \/ rs.pc = "mirror"
    \/ rs.pc \in {"find", "mkacct"} /\ rs.role \in {"wallet", "clearing", "external"}

\* C14: a setup call that fails ends the run with the error response and
\* nothing processed: a bootstrap query answered with a Fault is not followed
\* by anything but the error response, and a run that ends in setup has no
\* outcome and leaves the records and the cache as they were.
C14_SetupFailureAborts ==
    [][\A r \in Reqs :
          InSetupCall(run[r]) =>
              /\ run'[r].ans = "fault" => run'[r].pc = "failed"
              /\ run'[r].pc = "failed" =>
                    /\ run'[r].results = <<>>
                    /\ seenKeys' = seenKeys
                    /\ \A c \in Realms : qbo'[c].txns = qbo[c].txns]_vars

\* ------------------------------------------------------------------------
\* C15  Order of processing
\* ------------------------------------------------------------------------

\* The page indices of a request's transactions that move the target's
\* balance, and the page indices its outcomes belong to.
Moving(rs) ==
    {i \in 1..Len(Txs(rs)) : netTinybarFor(Txs(rs)[i], rs.target) # 0}

OutcomePositions(rs) == {rs.results[j].pos : j \in 1..Len(rs.results)}

\* C15: a run works through its page in the order of the page, one
\* transaction and one awaited call at a time.  The outcome list is in page
\* order; while a call of the loop is pending for the transaction at index
\* idx, exactly the moving transactions before idx have their outcome; a
\* completed run has an outcome for every moving transaction; and from one
\* call of the loop to the next the index never goes back.
C15_InPageOrder ==
    /\ [](\A r \in Reqs :
            LET rs == run[r]
            IN  /\ \A j, k \in 1..Len(rs.results) :
                      j < k => rs.results[j].pos < rs.results[k].pos
                /\ InLoopCall(rs) =>
                      /\ rs.idx \in Moving(rs)
                      /\ OutcomePositions(rs) = {i \in Moving(rs) : i < rs.idx}
                /\ rs.pc = "done" => OutcomePositions(rs) = Moving(rs))
    /\ [][\A r \in Reqs :
            (InLoopCall(run[r]) /\ InLoopCall(run'[r])) =>
                run'[r].idx >= run[r].idx]_vars

\* A run has completed with outcomes for two transactions of its page.
C15_Witness ==
    \E r \in Reqs : run[r].pc = "done" /\ Len(run[r].results) >= 2

\* ------------------------------------------------------------------------
\* C16  The cache is reset when the company changes
\* ------------------------------------------------------------------------

\* C16: the cache of a process authenticated for a company holds no key
\* that was added under another company, and no run records a local
\* duplicate for a key that was added under a company other than its own.
C16_GuardScopedToCompany ==
    /\ [](\A p \in Procs :
            (token[p].has /\ token[p].realmId # Null) =>
                \A e \in seenUnder[p] : e[2] = token[p].realmId)
    /\ [][\A r \in Reqs :
            \A j \in 1..Len(run'[r].results) :
                (j > Len(run[r].results) /\ run'[r].results[j].kind = "SKIPPED_MEMORY") =>
                    \A e \in seenUnder[run'[r].proc] :
                        e[1] = run'[r].results[j].key => e[2] = run'[r].realm]_vars

\* ------------------------------------------------------------------------
\* C17  Key stability and injectivity
\* ------------------------------------------------------------------------

\* The (transaction_id, consensus_timestamp) pair of a transaction.
PairOf(tx) == <<tx.transaction_id, tx.consensus_timestamp>>

\* The pair with a missing field read as the empty string.
ReadPairOf(tx) ==
    << IF tx.transaction_id = Undefined THEN <<>> ELSE tx.transaction_id,
       IF tx.consensus_timestamp = Undefined THEN <<>> ELSE tx.consensus_timestamp >>

HasColon(s) == s # Undefined /\ \E i \in 1..Len(s) : s[i] = ":"

\* C17 (as stated): two transactions have the same key exactly when their
\* (transaction_id, consensus_timestamp) pairs are the same, also when a
\* field is empty or missing.
C17_KeyInjective ==
    probe.op = "key" => ((probe.ka = probe.kb) <=> (PairOf(probe.a) = PairOf(probe.b)))

\* C17 (amended): for transactions whose ids hold no ':', two transactions
\* have the same key exactly when their pairs are the same once a missing
\* field is read as the empty string.
C17_KeyInjectiveOnLedgerIds ==
    (probe.op = "key" /\ ~HasColon(probe.a.transaction_id)
                      /\ ~HasColon(probe.b.transaction_id)) =>
        ((probe.ka = probe.kb) <=> (ReadPairOf(probe.a) = ReadPairOf(probe.b)))

\* Two transactions with the same colon-free id, one with an empty and one
\* with a non-empty timestamp, got different keys.
C17_Witness ==
    /\ probe.op = "key"
    /\ probe.a.transaction_id = probe.b.transaction_id
    /\ ~HasColon(probe.a.transaction_id) /\ probe.a.transaction_id # Undefined
    /\ probe.a.consensus_timestamp = <<>>
    /\ probe.b.consensus_timestamp \notin {<<>>, Undefined}
    /\ probe.ka # probe.kb

\* ------------------------------------------------------------------------
\* C18  Date-bucket determinism
\* ------------------------------------------------------------------------

\* The integer-seconds part of a present timestamp.
IntegerSeconds(ts) == SplitDotHead(ts)

\* The timestamp is missing (absent or empty).
Missing(ts) == ts = Undefined \/ ts = <<>>

\* The timestamp is present and its integer-seconds part is not a number.
NotANumber(ts) ==
    ~Missing(ts) /\ \E i \in 1..Len(IntegerSeconds(ts)) : IntegerSeconds(ts)[i] \notin Digits

\* C18 (as stated): the date derived for a transaction is the same in two
\* runs, whatever the wall-clock days of the runs.
C18_DateIndependentOfClock ==
    probe.op = "date" => probe.d1 = probe.d2

\* C18 (amended): the date derived for a transaction whose timestamp is
\* present and has a numeric integer-seconds part is the same in two runs,
\* whatever the wall-clock days of the runs.
C18_TimestampDateIndependentOfClock ==
    (probe.op = "date" /\ ~Missing(probe.ts) /\ ~NotANumber(probe.ts)) =>
        probe.d1 = probe.d2

\* A ledger timestamp was dated in two runs on different days and got one
\* date.
C18_Witness ==
    /\ probe.op = "date"
    /\ probe.ts = Tx1.consensus_timestamp
    /\ probe.now1 # probe.now2
    /\ ~probe.d1.throws
    /\ probe.d1 = probe.d2

\* ------------------------------------------------------------------------
\* C19  Date-bucket fallback
\* ------------------------------------------------------------------------

\* The integer-seconds part is a non-empty run of decimal digits.
Parseable(ts) ==
    ~Missing(ts) /\ ~NotANumber(ts) /\ Len(IntegerSeconds(ts)) > 0

\* C19: toTxnDateFromConsensus never raises; for a timestamp that is missing
\* or whose integer-seconds part is not parseable it returns the current
\* day, and for a parseable one the day of its integer seconds.
C19_DateFallback ==
    probe.op = "date" =>
        /\ ~probe.d1.throws
        /\ ~Parseable(probe.ts) => probe.d1.day = probe.now1
        /\ (Parseable(probe.ts) /\ Len(IntegerSeconds(probe.ts)) <= MaxDateDigits) =>
               probe.d1.day = DigitsValue(IntegerSeconds(probe.ts)) \div SecondsPerDay

\* The parts of C19 that the helper keeps: a missing timestamp and one whose
\* integer-seconds part holds a non-digit give the current day, and seconds
\* within the range of a Date give their day, without raising.
C19_FallbackOnMissingOrNotANumber ==
    probe.op = "date" =>
        /\ (Missing(probe.ts) \/ NotANumber(probe.ts)) =>
               ~probe.d1.throws /\ probe.d1.day = probe.now1
        /\ (Parseable(probe.ts) /\ Len(IntegerSeconds(probe.ts)) <= MaxDateDigits) =>
               /\ ~probe.d1.throws
               /\ probe.d1.day = DigitsValue(IntegerSeconds(probe.ts)) \div SecondsPerDay

\* The two inputs on which C19 fails: no integer part, and seconds beyond
\* the range of a Date.
C19_EmptySecondsDatedAtEpoch ==
    (probe.op = "date" /\ probe.ts = <<".", "5">>) =>
        (~probe.d1.throws /\ probe.d1.day = 0)

C19_HugeSecondsThrow ==
    (probe.op = "date" /\ Parseable(probe.ts)
        /\ Len(IntegerSeconds(probe.ts)) > MaxDateDigits) => probe.d1.throws

\* ------------------------------------------------------------------------
\* C20  Magnitude
\* ------------------------------------------------------------------------

\* C20: the amount written for a net movement, in hundredths, is
\* |net| / 1,000,000 rounded to the nearest integer, a half taken up.
C20_AmountIsRounded ==
    probe.op = "amount" => probe.cents = HalfUpCents(probe.net)

\* The part of C20 that the conversion keeps: the amount is a hundredth
\* nearest to |net| / 1,000,000, and it is the half-up value whenever the
\* movement is not exactly half a hundredth.
C20_AmountIsANearestHundredth ==
    probe.op = "amount" =>
        /\ 2 * Abs(probe.cents * TinybarPerCent - Abs(probe.net)) <= TinybarPerCent
        /\ (Abs(probe.net) % TinybarPerCent # TinybarPerCent \div 2) =>
               probe.cents = HalfUpCents(probe.net)

\* The movement on which C20 fails: 1,500,000 tinybar (0.015 hbar) is
\* written as 0.01.
C20_HalfCentTakenDown ==
    (probe.op = "amount" /\ probe.net = TinybarPerCent + (TinybarPerCent \div 2)) =>
        probe.cents = 1

\* ------------------------------------------------------------------------
\* C21  Outcome accounting of a completed run
\* ------------------------------------------------------------------------

\* The outcomes of a request of the given kinds, by their place in results.
OutcomesOfKind(rs, kinds) ==
    {j \in 1..Len(rs.results) : rs.results[j].kind \in kinds}

\* The counts of the report (lines 533-536).
CreatedCount(rs) == Cardinality(OutcomesOfKind(rs, {"CREATED"}))

SkippedCount(rs) ==
    Cardinality(OutcomesOfKind(rs, {"SKIPPED_MEMORY", "SKIPPED_QBO"}))

\* C21: in a completed run every transaction of the page that moves the
\* target's balance has exactly one outcome, a CREATED, SKIPPED_MEMORY or
\* SKIPPED_QBO carrying its key, and no other transaction has one; the
\* created and the skipped count add up to the number of moving
\* transactions; and the created count is the number of records the run
\* wrote: every step of a run that goes on adds as many CREATED outcomes as
\* it adds records to the run's company (one request at a time).
C21_OutcomeAccounting ==
    /\ [](\A r \in Reqs :
            LET rs == run[r]
            IN  /\ rs.created = CreatedCount(rs)
                /\ rs.pc = "done" =>
                      /\ \A i \in Moving(rs) :
                            Cardinality({j \in 1..Len(rs.results) :
                                            rs.results[j].pos = i}) = 1
                      /\ \A j \in 1..Len(rs.results) :
                            /\ rs.results[j].pos \in Moving(rs)
                            /\ rs.results[j].kind \in
                                  {"CREATED", "SKIPPED_MEMORY", "SKIPPED_QBO"}
                            /\ rs.results[j].key =
                                  makeIdempotencyKey(Txs(rs)[rs.results[j].pos])
                      /\ CreatedCount(rs) + SkippedCount(rs) = Cardinality(Moving(rs)))
    /\ [][\A r \in Reqs :
            (run[r].pc \notin Finished /\ run'[r].pc \notin {"idle", "failed"}) =>
                CreatedCount(run'[r]) - CreatedCount(run[r]) =
                    Len(qbo'[run[r].realm].txns) - Len(qbo[run[r].realm].txns)]_vars

\* A run has completed over a page of two moving transactions with one
\* record created and one transaction skipped.
C21_Witness ==
    \E r \in Reqs :
        /\ run[r].pc = "done"
        /\ Cardinality(Moving(run[r])) = 2
        /\ CreatedCount(run[r]) = 1
        /\ SkippedCount(run[r]) = 1

\* ------------------------------------------------------------------------
\* C22  A skip is backed by a record
\* ------------------------------------------------------------------------

\* C22: a transaction is reported as skipped only if the company of the run
\* holds a record carrying its key; and once no request is in flight, every
\* key in the cache of a process with a valid session has a record in the
\* company the process is authenticated for.
C22_SkipBackedByRecord ==
    /\ \A r \in Reqs :
          \A j \in OutcomesOfKind(run[r], {"SKIPPED_MEMORY", "SKIPPED_QBO"}) :
              WithKey(qbo[run[r].realm], run[r].results[j].key) # {}
    /\ (\A r \in Reqs : run[r].pc \in Finished) =>
          \A p \in Procs :
              getCompanyRealmIdOrThrow(p).ok =>
                  \A key \in seenKeys[p] :
                      WithKey(qbo[getCompanyRealmIdOrThrow(p).realm], key) # {}

\* The first half of C22 alone: the outcome of a run.
C22_ReportedSkipHasRecord ==
    \A r \in Reqs :
        \A j \in OutcomesOfKind(run[r], {"SKIPPED_MEMORY", "SKIPPED_QBO"}) :
            WithKey(qbo[run[r].realm], run[r].results[j].key) # {}

\* ------------------------------------------------------------------------
\* C23  Convergence under retry
\* ------------------------------------------------------------------------

\* Every transaction of the current page of the default account that moves
\* its balance has a record carrying its key in the company.
AllBooked ==
    \A i \in 1..Len(Page(mirrorLen, TARGET_HEDERA_ACCOUNT)) :
        LET tx == Page(mirrorLen, TARGET_HEDERA_ACCOUNT)[i]
        IN  netTinybarFor(tx, TARGET_HEDERA_ACCOUNT) # 0 =>
                WithKey(qbo[Company], makeIdempotencyKey(tx)) # {}

\* C23: if the backend and the mirror node come to accept every call, then
\* from some point on every moving transaction of the page has its record
\* (the session stays valid, the process is not restarted and the sync is
\* run again and again).
C23_ConvergesUnderRetry == (<>recovered) => <>[]AllBooked

\* ------------------------------------------------------------------------
\* C24  Mutual exclusion by the cache within a process
\* ------------------------------------------------------------------------

\* The request has reached the existence check for the key: a call of the
\* loop is pending for it, or the request has its outcome of a check.
Reached(rs, key) ==
    \/ InLoopCall(rs) /\ CurKey(rs) = key
    \/ HasOutcome(rs, "SKIPPED_QBO", key)
    \/ HasOutcome(rs, "CREATED", key)

\* Two requests in flight on the same process.
Concurrent(r1, r2) ==
    /\ r1 # r2
    /\ run[r1].pc \notin Finished
    /\ run[r2].pc \notin Finished
    /\ run[r1].proc = run[r2].proc

\* C24: of two sync requests in flight on the same process at most one has
\* reached the existence check, and so the create, of any given key.
C24_OneRequestPerKey ==
    \A r1, r2 \in Reqs :
        Concurrent(r1, r2) =>
            \A key \in LedgerKeys :
                ~(Reached(run[r1], key) /\ Reached(run[r2], key))

\* The consequence: no company holds two records for one key (the requests
\* of this specification are all for the default account).
C24_NoDoubleWrite ==
    \A c \in Realms, key \in LedgerKeys : Cardinality(WithKey(qbo[c], key)) <= 1

\* ------------------------------------------------------------------------
\* C25  Written amounts are positive
\* ------------------------------------------------------------------------

\* C25: the Deposit or Transfer submitted for a transaction with non-zero
\* net movement has an amount above 0.00.
C25_SubmittedAmountPositive ==
    probe.op = "payload" => probe.payload.Amount > 0

\* What remains true: the submitted amount is 0.00 exactly for the
\* movements below half a hundredth of an hbar.
C25_ZeroAmountBelowHalfCent ==
    probe.op = "payload" =>
        ((probe.payload.Amount = 0) <=> (Abs(probe.net) < TinybarPerCent \div 2))

====
